---- MODULE Spec2Model ----
(***************************************************************************)
(* A model of the fiber-otel API server: main() (initMeter, NewMetric, the *)
(* six Fiber routes) and the Metrics struct of internal/metrics with its   *)
(* atomic cart gauge and the observable-gauge callback.  Each Fiber worker *)
(* goroutine runs one handler at a time; handlers of different workers and *)
(* the periodic reader's callback interleave at every access to shared     *)
(* memory.  The handlers are those of main.go; the simplified variant of   *)
(* main differs from them only in the delay and the units of /latency.     *)
(***************************************************************************)
EXTENDS Integers, Sequences, FiniteSets, TLC

\* ---------------------------------------------------------------- bounds
NumWorkers == 2       \* worker goroutines serving connections concurrently
MaxRequests == 2      \* requests received in one run
MaxCount == 2         \* largest magnitude of a numeric count parameter
MaxTicks == 1         \* collections of the periodic reader in one run
MaxCalls == 2         \* calls of the Metrics methods on full-width values
MaxSets == 1          \* calls of SetItemsInCart beside the cart routes

\* r.Intn(Intn) draws the simulated delay of /latency, in milliseconds
Intn == 100
Delays == {0, Intn - 1}

Workers == 1..NumWorkers

VARIABLES
    phase,              \* position of main(): initMeter .. serving, or fatal
    failed,             \* the startup registrations that returned an error
    callbackRegistered, \* the gauge callback is registered with the meter
    totalCartItems,     \* Metrics.totalCartItems
    ErrorCount,         \* value of the Int64Counter api.requests_errors_total
    RequestLatency,     \* samples recorded by the Float64Histogram, in order
    errorCount,         \* main's local "var errorCount int"
    pc,                 \* per worker: position inside its handler
    countInt,           \* per worker: result of c.QueryInt("count")
    reg,                \* per worker: value loaded by errorCount++
    number,             \* per worker: delay drawn by /latency
    pre,                \* per worker: gauge value when the request arrived
    response,           \* the latest response written
    cbPc,               \* position of the callback closure
    currentValue,       \* the callback's local currentValue
    observed,           \* values handed to observer.ObserveInt64, in order
    produced,           \* every value a mutation has left in totalCartItems
    requested,          \* sum of the signed deltas of the accepted cart calls
    errHandled,         \* number of /error requests that have returned
    latHandled,         \* number of /latency requests that have returned
    lastUpdated,        \* updated_items of the latest add/reduce response
    nRequests,          \* requests received so far
    nTicks,             \* callback invocations started so far
    wGauge,             \* Metrics.totalCartItems as the words of an int64
    wExact,             \* the integer that the full-width calls amount to
    wLast,              \* the latest full-width call
    nCalls,             \* full-width calls made so far
    stored,             \* the latest SetItemsInCart: its value, and the sum
                        \* of the deltas applied before it
    nSets               \* calls of SetItemsInCart made so far

startupVars == <<phase, failed, callbackRegistered>>
aggVars == <<totalCartItems, ErrorCount, RequestLatency>>
workerVars == <<pc, countInt, reg, number, pre>>
cbVars == <<cbPc, currentValue, observed, nTicks>>
ghostVars ==
    <<produced, requested, errHandled, latHandled, lastUpdated, nRequests>>
wideVars == <<wGauge, wExact, wLast, nCalls>>
setVars == <<stored, nSets>>
harnessVars == <<wideVars, setVars>>
modelVars ==
    <<startupVars, aggVars, errorCount, workerVars, response, cbVars, ghostVars>>
vars == <<modelVars, harnessVars>>

\* ------------------------------------------------- strconv.Atoi, QueryInt
Absent == <<"absent">>          \* the query string has no count parameter
Digits == <<"0", "1", "2", "3", "4", "5", "6", "7", "8", "9">>
DigitChars == {Digits[i] : i \in 1..10}
DigitVal(c) == (CHOOSE i \in 1..10 : Digits[i] = c) - 1

RECURSIVE ParseDigits(_, _)
ParseDigits(s, acc) ==
    IF s = <<>> THEN acc
    ELSE ParseDigits(Tail(s), acc * 10 + DigitVal(Head(s)))

\* strconv.Atoi: an optional sign followed by one or more decimal digits
Atoi(s) ==
    LET body == IF s # <<>> /\ Head(s) \in {"+", "-"} THEN Tail(s) ELSE s
        neg == s # <<>> /\ Head(s) = "-"
    IN  IF body = <<>> \/ \E i \in 1..Len(body) : body[i] \notin DigitChars
        THEN [err |-> TRUE, value |-> 0]
        ELSE [err |-> FALSE,
              value |-> IF neg THEN 0 - ParseDigits(body, 0)
                        ELSE ParseDigits(body, 0)]

\* fasthttp QueryArgs().Peek(key): nil (the empty string) when key is absent
Peek(raw) == IF raw = Absent THEN <<>> ELSE raw

\* fiber Ctx.QueryInt(key): the parsed integer, 0 when Atoi fails
QueryInt(raw) ==
    LET r == Atoi(Peek(raw)) IN IF r.err THEN 0 ELSE r.value

RECURSIVE Itoa(_)
Itoa(n) ==
    IF n < 0 THEN <<"-">> \o Itoa(0 - n)
    ELSE IF n < 10 THEN <<Digits[n + 1]>>
    ELSE Itoa(n \div 10) \o <<Digits[(n % 10) + 1]>>

\* raw values of the count parameter that requests carry
InvalidCounts == {Absent, <<"x">>, <<"1", "x">>, <<"0">>}
NumericCounts == {Itoa(n) : n \in (0 - MaxCount)..MaxCount}
CountParams == InvalidCounts \cup NumericCounts

NoResponse == [status |-> 0, kind |-> "none", value |-> 0]

\* a response: c.JSON, c.Status(..).JSON, or the error handler's 500
Respond(status, kind, value) ==
    [status |-> status, kind |-> kind, value |-> value]

\* m := &Metrics{...}: totalCartItems starts at the zero value of int64
InitialCartItems == 0

\* ------------------------------------------------------------ sync/atomic
\* Variant of the load that reads only the low 16 bits of the word.
AtomicLoadInt64LowWord(addr) == addr % 65536

AtomicLoadInt64(addr) == addr
AtomicStoreInt64(addr, value) == value
AtomicAddInt64(addr, delta) == addr + delta

\* --------------------------------------------- int64 at its full width
\* An int64 is held as its two's-complement words, Limbs limbs of 16 bits,
\* the least significant first.
Limbs == 4
LimbBase == 65536
SignBit == LimbBase \div 2
Words == [1..Limbs -> 0..(LimbBase - 1)]

\* An integer near a bound of int64 is written k * 2^63 + off, with off
\* small: MinInt64 is (-1, 0), MaxInt64 is (1, -1).
Big(k, off) == [k |-> k, off |-> off]
BigOf(n) == Big(0, n)
MinInt64 == Big(0 - 1, 0)
MaxInt64 == Big(1, 0 - 1)
MathAdd(x, y) == Big(x.k + y.k, x.off + y.off)
MathNeg(x) == Big(0 - x.k, 0 - x.off)

\* x lies in MinInt64 .. MaxInt64
InInt64(x) ==
    \/ x.k = 0
    \/ x.k = 0 - 1 /\ x.off >= 0
    \/ x.k = 1 /\ x.off < 0

\* the integer of MinInt64 .. MaxInt64 that is congruent to x modulo 2^64:
\* an even k is a multiple of 2^64, an odd k leaves 2^63, which is -2^63
Wrap64(x) ==
    IF x.k % 2 = 0 THEN Big(0, x.off)
    ELSE IF x.off >= 0 THEN Big(0 - 1, x.off) ELSE Big(1, x.off)

\* the words of a small integer n, sign-extended
SmallWord(n) ==
    [i \in 1..Limbs |->
        IF n >= 0 THEN (IF i = 1 THEN n ELSE 0)
        ELSE (IF i = 1 THEN LimbBase + n ELSE LimbBase - 1)]

\* the words of an integer x of MinInt64 .. MaxInt64
ToWord(x) ==
    LET s == SmallWord(x.off)
    IN  IF x.k = 0 THEN s
        ELSE [s EXCEPT ![Limbs] = (s[Limbs] + SignBit) % LimbBase]

\* the arguments and gauge values exercised at full width
Int64Inputs ==
    {MinInt64, Big(0 - 1, 1), BigOf(0 - 1), BigOf(0), BigOf(1),
     Big(1, 0 - 2), MaxInt64}

\* the adder of a 64-bit machine word: limb by limb with the carry, the
\* carry out of the last limb dropped
RECURSIVE AddLimbs(_, _, _, _)
AddLimbs(a, b, i, carry) ==
    IF i > Limbs THEN <<>>
    ELSE LET t == a[i] + b[i] + carry
         IN  <<t % LimbBase>> \o AddLimbs(a, b, i + 1, t \div LimbBase)

IsNegative(a) == a[Limbs] >= SignBit

\* Variant of the add that stops at MinInt64 and MaxInt64.
AtomicAddInt64Saturating(addr, delta) ==
    LET sum == AddLimbs(addr, delta, 1, 0)
    IN  IF IsNegative(addr) = IsNegative(delta)
           /\ IsNegative(sum) # IsNegative(addr)
        THEN (IF IsNegative(addr) THEN ToWord(MinInt64) ELSE ToWord(MaxInt64))
        ELSE sum

AtomicStoreInt64Word(addr, value) == value
AtomicAddInt64Word(addr, delta) == AddLimbs(addr, delta, 1, 0)

\* -value of an int64: the complement plus one
NegInt64(value) ==
    AddLimbs([i \in 1..Limbs |-> LimbBase - 1 - value[i]], SmallWord(1), 1, 0)

\* the three mutating methods of Metrics on the words of an int64
SetItemsInCart64(m, value) == AtomicStoreInt64Word(m, value)
AddItemsInCart64(m, value) == AtomicAddInt64Word(m, value)
ReduceItemsInCart64(m, value) == AtomicAddInt64Word(m, NegInt64(value))

\* ---------------------------------------------------------------- Init
Init ==
    /\ phase = "initMeter"
    /\ failed = {}
    /\ callbackRegistered = FALSE
    /\ totalCartItems = InitialCartItems
    /\ ErrorCount = 0
    /\ RequestLatency = <<>>
    /\ errorCount = 0
    /\ pc = [w \in Workers |-> "idle"]
    /\ countInt = [w \in Workers |-> 0]
    /\ reg = [w \in Workers |-> 0]
    /\ number = [w \in Workers |-> 0]
    /\ pre = [w \in Workers |-> 0]
    /\ response = NoResponse
    /\ cbPc = "idle"
    /\ currentValue = 0
    /\ observed = <<>>
    /\ produced = {}
    /\ requested = 0
    /\ errHandled = 0
    /\ latHandled = 0
    /\ lastUpdated = InitialCartItems
    /\ nRequests = 0
    /\ nTicks = 0
    /\ wGauge = ToWord(BigOf(InitialCartItems))
    /\ wExact = BigOf(InitialCartItems)
    /\ wLast = [op |-> "none", arg |-> BigOf(0), wrapped |-> FALSE]
    /\ nCalls = 0
    /\ stored = [value |-> InitialCartItems, at |-> 0]
    /\ nSets = 0

\* ------------------------------------------------------- metrics.Metrics
\* Each method is one sync/atomic call; the operator gives the value of
\* totalCartItems after the call (for a load: the value returned).
\* Variants of the methods: add as a store, reduce without the negation,
\* reduce with a floor of zero, and a read done as an add of one.
AddItemsInCartStore(m, value) == AtomicStoreInt64(m, value)
ReduceItemsInCartNoNeg(m, value) == AtomicAddInt64(m, value)
ReduceItemsInCartFloor(m, value) ==
    IF AtomicAddInt64(m, 0 - value) < 0 THEN 0 ELSE AtomicAddInt64(m, 0 - value)
GetTotalItemsInCartAddOne(m) == AtomicAddInt64(m, 1)

\* Variant of SetItemsInCart that adds the value to the gauge.
SetItemsInCartAdd(m, value) == AtomicAddInt64(m, value)

SetItemsInCart(m, value) == AtomicStoreInt64(m, value)
AddItemsInCart(m, value) == AtomicAddInt64(m, value)
ReduceItemsInCart(m, value) == AtomicAddInt64(m, 0 - value)
GetTotalItemsInCart(m) == AtomicLoadInt64(m)

\* Variant of the counter that counts every increment twice.
CounterAddTwice(sum, incr) == sum + incr + incr

\* metric.Int64Counter.Add(ctx, incr): the SDK's atomic sum
CounterAdd(sum, incr) == sum + incr

\* Variant of the histogram that keeps only the latest sample.
HistogramRecordLast(samples, value) == <<value>>

\* metric.Float64Histogram.Record(ctx, value)
HistogramRecord(samples, value) == Append(samples, value)

\* ------------------------------------------------------ startup: main()
servingVars ==
    <<aggVars, errorCount, workerVars, response, cbVars, ghostVars, harnessVars>>

Main_initMeter ==
    /\ phase = "initMeter"
    /\ \E ok \in BOOLEAN : phase' = IF ok THEN "Int64Counter" ELSE "fatal"
    /\ UNCHANGED <<failed, callbackRegistered, servingVars>>

\* One instrument creation of NewMetric: on error NewMetric returns
\* (nil, err) and main calls log.Fatal.
CreateInstrument(here, next) ==
    /\ phase = here
    /\ \E ok \in BOOLEAN :
          /\ phase' = IF ok THEN next ELSE "fatal"
          /\ failed' = IF ok THEN failed ELSE failed \cup {here}
    /\ UNCHANGED <<callbackRegistered, servingVars>>

NewMetric_Int64Counter == CreateInstrument("Int64Counter", "Float64Histogram")

NewMetric_Float64Histogram ==
    CreateInstrument("Float64Histogram", "Int64ObservableGauge")

NewMetric_Int64ObservableGauge ==
    CreateInstrument("Int64ObservableGauge", "RegisterCallback")

\* meter.RegisterCallback(...): both results of the call are discarded, and
\* NewMetric returns (m, nil) whatever the registration returned.
NewMetric_RegisterCallback ==
    /\ phase = "RegisterCallback"
    /\ \E ok \in BOOLEAN :
          /\ callbackRegistered' = ok
          /\ failed' = IF ok THEN failed ELSE failed \cup {"RegisterCallback"}
    /\ phase' = "Listen"
    /\ UNCHANGED servingVars

\* app.Listen(":3100"): serves, or returns an error into log.Fatal
Main_Listen ==
    /\ phase = "Listen"
    /\ \E ok \in BOOLEAN : phase' = IF ok THEN "serving" ELSE "fatal"
    /\ UNCHANGED <<failed, callbackRegistered, servingVars>>

\* ------------------------------------------------------------ handlers
\* A handler runs from the arrival of its request to its first access to
\* shared memory in one step, and from one such access to the next.
Idle(w) == pc[w] = "idle"
AllIdle == \A w \in Workers : Idle(w)

\* Variant of Receive for a server that handles one request at a time: a
\* request waits until no handler is running or sleeping.
ReceiveSerial(w) ==
    /\ phase = "serving"
    /\ \A v \in Workers : Idle(v)
    /\ w = 1
    /\ nRequests < MaxRequests
    /\ nRequests' = nRequests + 1

\* The server hands a request to a free worker and its handler starts.
\* Workers are interchangeable, so the lowest-numbered idle one takes it.
Receive(w) ==
    /\ phase = "serving"
    /\ Idle(w)
    /\ \A v \in Workers : v < w => ~Idle(v)
    /\ nRequests < MaxRequests
    /\ nRequests' = nRequests + 1

\* the handler of worker w returns: its response is written and its locals
\* are gone
Return(w, status, kind, value) ==
    /\ response' = Respond(status, kind, value)
    /\ pc' = [pc EXCEPT ![w] = "idle"]
    /\ countInt' = [countInt EXCEPT ![w] = 0]
    /\ reg' = [reg EXCEPT ![w] = 0]
    /\ number' = [number EXCEPT ![w] = 0]
    /\ pre' = [pre EXCEPT ![w] = 0]

\* GET /
GetRoot(w) ==
    /\ Receive(w)
    /\ Return(w, 200, "root", 0)
    /\ UNCHANGED <<startupVars, harnessVars, aggVars, errorCount, cbVars, produced, requested,
                   errHandled, latHandled,
                   lastUpdated>>

\* GET /error: errorCount++ is a plain load and a plain store of a variable
\* shared by every worker
GetError_Load(w) ==
    /\ Receive(w)
    /\ reg' = [reg EXCEPT ![w] = errorCount]
    /\ pc' = [pc EXCEPT ![w] = "error_store"]
    /\ UNCHANGED <<startupVars, harnessVars, aggVars, errorCount, countInt, number, pre,
                   response, cbVars, produced, requested, errHandled, latHandled,
                   lastUpdated>>

GetError_Store(w) ==
    /\ pc[w] = "error_store"
    /\ errorCount' = reg[w] + 1
    /\ pc' = [pc EXCEPT ![w] = "error_add"]
    /\ UNCHANGED <<startupVars, harnessVars, aggVars, countInt, reg, number, pre,
                   response, cbVars, ghostVars>>

GetError_Add(w) ==
    /\ pc[w] = "error_add"
    /\ ErrorCount' = CounterAdd(ErrorCount, 1)
    /\ pc' = [pc EXCEPT ![w] = "error_log"]
    /\ UNCHANGED <<startupVars, harnessVars, totalCartItems, RequestLatency, errorCount,
                   countInt, reg, number, pre, response, cbVars, ghostVars>>

\* log.Println("Errors:", errorCount); the returned error becomes a 500
GetError_Return(w) ==
    /\ pc[w] = "error_log"
    /\ Return(w, 500, "error", errorCount)
    /\ errHandled' = errHandled + 1
    /\ UNCHANGED <<startupVars, harnessVars, aggVars, errorCount, cbVars, produced, requested,
                   latHandled, lastUpdated, nRequests>>

\* GET /latency: r.Intn(100) milliseconds of time.Sleep
GetLatency_Sleep(w) ==
    /\ Receive(w)
    /\ \E n \in Delays : number' = [number EXCEPT ![w] = n]
    /\ pc' = [pc EXCEPT ![w] = "latency_sleep"]
    /\ UNCHANGED <<startupVars, harnessVars, aggVars, errorCount, countInt, reg, pre,
                   response, cbVars, produced, requested, errHandled, latHandled,
                   lastUpdated>>

GetLatency_Record(w) ==
    /\ pc[w] = "latency_sleep"
    /\ RequestLatency' = HistogramRecord(RequestLatency, number[w])
    /\ Return(w, 200, "latency", number[w])
    /\ latHandled' = latHandled + 1
    /\ UNCHANGED <<startupVars, harnessVars, totalCartItems, ErrorCount, errorCount,
                   cbVars, produced, requested, errHandled, lastUpdated,
                   nRequests>>

\* Variant of GET /cart that also clears the gauge it reports.
GetCartClear(w) ==
    /\ Receive(w)
    /\ Return(w, 200, "cart", GetTotalItemsInCart(totalCartItems))
    /\ totalCartItems' = SetItemsInCart(totalCartItems, 0)
    /\ UNCHANGED <<startupVars, harnessVars, ErrorCount, RequestLatency, errorCount, cbVars,
                   produced, requested, errHandled, latHandled, lastUpdated>>

\* GET /cart
GetCart(w) ==
    /\ Receive(w)
    /\ Return(w, 200, "cart", GetTotalItemsInCart(totalCartItems))
    /\ UNCHANGED <<startupVars, harnessVars, aggVars, errorCount, cbVars, produced, requested,
                   errHandled, latHandled,
                   lastUpdated>>

\* Variant of the first half of the cart handlers without the check of
\* countInt against 0.
CartMutationNoCheck(w, n, asked, after, next) ==
    /\ Receive(w)
    /\ countInt' = [countInt EXCEPT ![w] = n]
    /\ pre' = [pre EXCEPT ![w] = totalCartItems]
    /\ totalCartItems' = after
    /\ produced' = produced \cup {after}
    /\ requested' = requested + asked
    /\ pc' = [pc EXCEPT ![w] = next]
    /\ UNCHANGED <<startupVars, harnessVars, ErrorCount, RequestLatency, errorCount, reg,
                   number, response, cbVars, errHandled, latHandled,
                   lastUpdated>>

\* Variant of the first half that answers 400 to every count below 1.
CartMutationPositiveOnly(w, n, asked, after, next) ==
    /\ Receive(w)
    /\ IF n <= 0
       THEN /\ Return(w, 400, "invalid", 0)
            /\ UNCHANGED <<totalCartItems, produced, requested>>
       ELSE /\ countInt' = [countInt EXCEPT ![w] = n]
            /\ pre' = [pre EXCEPT ![w] = totalCartItems]
            /\ totalCartItems' = after
            /\ produced' = produced \cup {after}
            /\ requested' = requested + asked
            /\ pc' = [pc EXCEPT ![w] = next]
            /\ UNCHANGED <<reg, number, response>>
    /\ UNCHANGED <<startupVars, harnessVars, ErrorCount, RequestLatency,
                   errorCount, cbVars, errHandled, latHandled, lastUpdated>>

\* The shared first half of /cart/add and /cart/reduce: with n the parsed
\* count, answer 400 when n is 0, otherwise the Metrics method leaves the
\* gauge at `after` and the handler goes on to `next`; `asked` is the signed
\* change of the gauge that the request asks for.
CartMutation(w, n, asked, after, next) ==
    /\ Receive(w)
    /\ IF n = 0
       THEN /\ Return(w, 400, "invalid", 0)
            /\ UNCHANGED <<totalCartItems, produced, requested>>
       ELSE /\ countInt' = [countInt EXCEPT ![w] = n]
            /\ pre' = [pre EXCEPT ![w] = totalCartItems]
            /\ totalCartItems' = after
            /\ produced' = produced \cup {after}
            /\ requested' = requested + asked
            /\ pc' = [pc EXCEPT ![w] = next]
            /\ UNCHANGED <<reg, number, response>>
    /\ UNCHANGED <<startupVars, harnessVars, ErrorCount, RequestLatency, errorCount,
                   cbVars, errHandled, latHandled,
                   lastUpdated>>

\* Variant of the second half that reports the gauge the request found plus
\* its own change instead of reading the gauge again.
CartReturnOwn(w, here, kind) ==
    /\ pc[w] = here
    /\ Return(w, 200, kind,
              pre[w] + (IF kind = "added" THEN countInt[w] ELSE 0 - countInt[w]))
    /\ lastUpdated' = response'.value
    /\ UNCHANGED <<startupVars, harnessVars, aggVars, errorCount, cbVars,
                   produced, requested, errHandled, latHandled, nRequests>>

\* The shared second half: updated_items is read by GetTotalItemsInCart
CartReturn(w, here, kind) ==
    /\ pc[w] = here
    /\ Return(w, 200, kind, GetTotalItemsInCart(totalCartItems))
    /\ lastUpdated' = response'.value
    /\ UNCHANGED <<startupVars, harnessVars, aggVars, errorCount, cbVars, produced, requested,
                   errHandled, latHandled,
                   nRequests>>

\* GET /cart/add?count=raw
GetCartAdd(w, raw) ==
    LET n == QueryInt(raw)
    IN  CartMutation(w, n, n, AddItemsInCart(totalCartItems, n), "add_return")

GetCartAdd_Return(w) == CartReturn(w, "add_return", "added")

\* GET /cart/reduce?count=raw
GetCartReduce(w, raw) ==
    LET n == QueryInt(raw)
    IN  CartMutation(w, n, 0 - n, ReduceItemsInCart(totalCartItems, n),
                     "reduce_return")

GetCartReduce_Return(w) == CartReturn(w, "reduce_return", "reduced")

\* ------------------------------------- the observable gauge's callback
\* Variant of the callback that swaps the gauge to zero as it reads it.
Callback_LoadSwap ==
    /\ phase \in {"Listen", "serving"}
    /\ callbackRegistered
    /\ cbPc = "idle"
    /\ nTicks < MaxTicks
    /\ currentValue' = AtomicLoadInt64(totalCartItems)
    /\ totalCartItems' = 0
    /\ cbPc' = "observe"
    /\ nTicks' = nTicks + 1
    /\ UNCHANGED <<startupVars, harnessVars, ErrorCount, RequestLatency, errorCount,
                   workerVars, response, observed, ghostVars>>

\* currentValue := atomic.LoadInt64(&m.totalCartItems)
Callback_Load ==
    /\ phase \in {"Listen", "serving"}
    /\ callbackRegistered
    /\ cbPc = "idle"
    /\ nTicks < MaxTicks
    /\ currentValue' = AtomicLoadInt64(totalCartItems)
    /\ cbPc' = "observe"
    /\ nTicks' = nTicks + 1
    /\ UNCHANGED <<startupVars, harnessVars, aggVars, errorCount, workerVars, response,
                   observed, ghostVars>>

\* observer.ObserveInt64(m.CartItems, currentValue); return nil
Callback_Observe ==
    /\ cbPc = "observe"
    /\ observed' = Append(observed, currentValue)
    /\ cbPc' = "idle"
    /\ currentValue' = 0
    /\ UNCHANGED <<startupVars, harnessVars, aggVars, errorCount, workerVars, response,
                   nTicks, ghostVars>>

\* ---------------------------------------------------------------- Next
Startup ==
    \/ Main_initMeter
    \/ NewMetric_Int64Counter
    \/ NewMetric_Float64Histogram
    \/ NewMetric_Int64ObservableGauge
    \/ NewMetric_RegisterCallback
    \/ Main_Listen

\* the first step of a handler, with the request that starts it
Begin(w) ==
    \/ GetRoot(w)
    \/ GetError_Load(w)
    \/ GetLatency_Sleep(w)
    \/ GetCart(w)
    \/ \E raw \in CountParams : GetCartAdd(w, raw)
    \/ \E raw \in CountParams : GetCartReduce(w, raw)

\* the later steps of a running handler
Continue(w) ==
    \/ GetError_Store(w)
    \/ GetError_Add(w)
    \/ GetError_Return(w)
    \/ GetLatency_Record(w)
    \/ GetCartAdd_Return(w)
    \/ GetCartReduce_Return(w)

Callback == Callback_Load \/ Callback_Observe

Next ==
    \/ Startup
    \/ \E w \in Workers : Begin(w) \/ Continue(w)
    \/ Callback

Spec == Init /\ [][Next]_vars

\* Requests handled one at a time: a handler starts only when none runs.
NextSeq ==
    \/ Startup
    \/ \E w \in Workers : (AllIdle /\ Begin(w)) \/ Continue(w)
    \/ Callback

SeqSpec == Init /\ [][NextSeq]_vars

\* The Go scheduler runs every runnable goroutine and time.Sleep ends: a
\* running handler takes its next step, and the periodic reader's
\* collection goes on.
Fairness ==
    /\ \A w \in Workers : WF_vars(Continue(w))
    /\ WF_vars(Callback)

FairSpec == Spec /\ Fairness

\* ------------------------------- the Metrics methods at full width
\* One call of a mutating method on a Metrics value whose gauge is held at
\* its full width: `after` is the gauge the method leaves, `exact` the
\* integer the call amounts to.
MetricsCall(op, v, after, exact) ==
    /\ nCalls < MaxCalls
    /\ nCalls' = nCalls + 1
    /\ wGauge' = after
    /\ wExact' = Wrap64(exact)
    /\ wLast' = [op |-> op, arg |-> v, wrapped |-> ~InInt64(exact)]
    /\ UNCHANGED <<modelVars, setVars>>

Call_SetItemsInCart(v) ==
    MetricsCall("set", v, SetItemsInCart64(wGauge, ToWord(v)), v)

Call_AddItemsInCart(v) ==
    MetricsCall("add", v, AddItemsInCart64(wGauge, ToWord(v)),
                MathAdd(wExact, v))

Call_ReduceItemsInCart(v) ==
    MetricsCall("reduce", v, ReduceItemsInCart64(wGauge, ToWord(v)),
                MathAdd(wExact, MathNeg(v)))

NextWide ==
    \E v \in Int64Inputs :
        \/ Call_SetItemsInCart(v)
        \/ Call_AddItemsInCart(v)
        \/ Call_ReduceItemsInCart(v)

WideSpec == Init /\ [][NextWide]_vars

\* ------------------------------ SetItemsInCart beside the cart routes
\* the values stored
SetValues == {5}

\* Some goroutine calls m.SetItemsInCart(ctx, v) while the service runs.
SetItemsInCart_Call(v) ==
    /\ phase = "serving"
    /\ nSets < MaxSets
    /\ nSets' = nSets + 1
    /\ totalCartItems' = SetItemsInCart(totalCartItems, v)
    /\ stored' = [value |-> v, at |-> requested]
    /\ produced' = produced \cup {v}
    /\ UNCHANGED <<startupVars, wideVars, ErrorCount, RequestLatency,
                   errorCount, workerVars, response, cbVars, requested,
                   errHandled, latHandled, lastUpdated, nRequests>>

\* the steps of the handlers of the three cart routes
CartRoutes(w) ==
    \/ GetCart(w)
    \/ \E raw \in CountParams : GetCartAdd(w, raw)
    \/ \E raw \in CountParams : GetCartReduce(w, raw)
    \/ GetCartAdd_Return(w)
    \/ GetCartReduce_Return(w)

NextSet ==
    \/ Startup
    \/ \E w \in Workers : CartRoutes(w)
    \/ \E v \in SetValues : SetItemsInCart_Call(v)

SetSpec == Init /\ [][NextSet]_vars

\* ============================================================ claims
Running == {w \in Workers : ~Idle(w)}

\* every value totalCartItems has held: the initial one and the produced ones
Held == {InitialCartItems} \cup produced

\* C1: in every state, whatever the interleaving of the handlers, the gauge
\* equals its initial value plus the sum of the signed deltas of the add and
\* reduce calls made so far (reduce counting negated): no update is lost.
C1_NoLostUpdate == totalCartItems = InitialCartItems + requested

\* C1 witness: two handlers have applied an add and a reduce with different
\* counts concurrently (neither has returned yet).
C1_Witness ==
    \E v, w \in Workers :
        /\ pc[v] = "add_return"
        /\ pc[w] = "reduce_return"
        /\ countInt[v] # countInt[w]
        /\ totalCartItems # InitialCartItems

\* C2 as stated: every value GetTotalItemsInCart returns (total_items of
\* /cart, updated_items of /cart/add and /cart/reduce) was produced by a
\* completed mutation of the gauge.
C2_ReadIsProduced ==
    response.kind \in {"cart", "added", "reduced"} => response.value \in produced

\* C2 amended: every value GetTotalItemsInCart returns is the initial value
\* or was produced by a completed mutation: a value the gauge has held.
C2_ReadIsHeld ==
    response.kind \in {"cart", "added", "reduced"} => response.value \in Held

\* C2 witness: GET /cart has returned a mutated value while another
\* handler is running.
C2_Witness ==
    /\ response.kind = "cart"
    /\ response.value # InitialCartItems
    /\ Running # {}

\* one increment for every /error handler that has passed its Add
C3_CountExact ==
    ErrorCount = errHandled + Cardinality({w \in Workers : pc[w] = "error_log"})

\* C3: the error counter holds exactly one increment for every /error
\* handler that has passed its Add (so k once k handlers have returned and
\* none is running), and every step leaves it unchanged or adds exactly 1:
\* it never decreases and is never reset.
C3_ErrorCounter ==
    /\ []C3_CountExact
    /\ [][ErrorCount' = ErrorCount \/ ErrorCount' = ErrorCount + 1]_vars

\* C3 witness: two /error requests have been handled.
C3_Witness == errHandled = 2 /\ ErrorCount = 2 /\ AllIdle

\* C4 as stated: once no handler is running, the local tally errorCount
\* equals the number of /error requests handled and the error counter.
C4_TallyExact ==
    AllIdle => errorCount = errHandled /\ errorCount = ErrorCount

\* a cart request of worker w with count raw is answered 400 and changes
\* nothing else
C5_Rejects(w, raw) ==
    (GetCartAdd(w, raw) \/ GetCartReduce(w, raw)) =>
        /\ response'.status = 400
        /\ UNCHANGED <<totalCartItems, ErrorCount, RequestLatency>>
        /\ pc'[w] = "idle"
        /\ \A v \in Workers \ {w} :
              /\ pc'[v] = pc[v]
              /\ countInt'[v] = countInt[v]
              /\ pre'[v] = pre[v]

\* C5: a /cart/add or /cart/reduce whose count is missing, non-numeric or
\* zero is answered 400 in one step that changes neither the gauge, the
\* error counter, the histogram nor any other worker's handler.
C5_InvalidCount ==
    [][\A w \in Workers : \A raw \in InvalidCounts : C5_Rejects(w, raw)]_vars

\* C5 witness: a 400 has been answered with the gauge already changed and
\* another handler running.
C5_Witness ==
    /\ response.status = 400
    /\ totalCartItems # InitialCartItems
    /\ Running # {}

\* the responses of worker w's cart handlers, from the gauge before the
\* request and the last updated_items
C6_Step(w) ==
    /\ GetCartAdd_Return(w) =>
          response' = Respond(200, "added", pre[w] + countInt[w])
    /\ GetCartReduce_Return(w) =>
          response' = Respond(200, "reduced", pre[w] - countInt[w])
    /\ GetCart(w) => response' = Respond(200, "cart", lastUpdated)

\* C6: with requests handled one at a time, an accepted add returns
\* updated_items = gauge before + N with status ok, an accepted reduce
\* gauge before - N, and GET /cart returns the last updated_items (the
\* initial gauge 0 when there was none).
C6_Sequential == [][\A w \in Workers : C6_Step(w)]_vars

\* C6 witness: a GET /cart that follows an accepted mutation has returned
\* its updated_items.
C6_Witness ==
    /\ response.kind = "cart"
    /\ response.value = lastUpdated
    /\ lastUpdated # InitialCartItems
    /\ nRequests = 2

\* C7 as stated: the service serves requests only when none of the four
\* startup registrations failed.
C7_ServingMeansRegistered == phase = "serving" => failed = {}

\* a step of the callback (the only steps that move cbPc)
C8_CallbackStep ==
    cbPc' # cbPc =>
        /\ UNCHANGED <<totalCartItems, ErrorCount, RequestLatency, errorCount>>
        /\ cbPc = "idle" => currentValue' = totalCartItems
        /\ cbPc = "observe" => observed' = Append(observed, currentValue)

\* C8: a step of the callback, whatever the handlers are doing, changes
\* neither the gauge, the error counter, the histogram nor the local
\* tally; its load copies the gauge and its second step hands that copy to
\* the observer.
C8_CallbackReadsOnly == [][C8_CallbackStep]_vars

\* C8 witness: the callback has loaded a mutated gauge while a cart
\* handler is running.
C8_Witness ==
    /\ cbPc = "observe"
    /\ totalCartItems # InitialCartItems
    /\ \E w \in Workers : pc[w] \in {"add_return", "reduce_return"}

\* C9: every value handed to the observer, and the value the callback
\* holds between its load and the hand-over, is one the gauge has held.
C9_ObservedIsHeld ==
    /\ \A i \in 1..Len(observed) : observed[i] \in Held
    /\ cbPc = "observe" => currentValue \in Held

\* C9 witness: the observer has been handed a negative value produced by
\* a mutation while a handler is running.
C9_Witness ==
    /\ Len(observed) > 0
    /\ observed[Len(observed)] < 0
    /\ Running # {}

\* worker w's /cart/reduce?count=n with n greater than the gauge
C10_Step(w, n) ==
    (n > totalCartItems /\ GetCartReduce(w, Itoa(n))) =>
        /\ totalCartItems' = totalCartItems - n
        /\ totalCartItems' < 0
        /\ pc'[w] = "reduce_return"

\* C10: a /cart/reduce by N greater than the gauge is accepted (neither
\* rejected nor clamped) and leaves the gauge at exactly gauge - N, a
\* negative value.
C10_NoFloor == [][\A w \in Workers : \A n \in 1..MaxCount : C10_Step(w, n)]_vars

\* C10 witness: a reduce by a positive N greater than the gauge has been
\* answered with the negative updated_items = gauge before - N.
C10_Witness ==
    /\ response = Respond(200, "reduced", totalCartItems)
    /\ totalCartItems < 0
    /\ produced = {totalCartItems}

\* the steps a handler still has to take from a position
StepsLeft(label) ==
    CASE label = "idle" -> 0
      [] label = "error_store" -> 3
      [] label = "error_add" -> 2
      [] label \in {"error_log", "latency_sleep", "add_return", "reduce_return"} -> 1

\* no handler waits: every running handler can take its next step; and
\* while a /latency handler sleeps the free worker can start a request of
\* every route and the callback can run
C11_CanProceed ==
    /\ \A v \in Running : ENABLED Continue(v)
    /\ (\E s \in Workers : pc[s] = "latency_sleep") =>
        /\ \A v \in Workers :
              (Idle(v) /\ nRequests < MaxRequests
                 /\ \A u \in Workers : u < v => ~Idle(u)) =>
                  /\ ENABLED GetRoot(v)
                  /\ ENABLED GetError_Load(v)
                  /\ ENABLED GetLatency_Sleep(v)
                  /\ ENABLED GetCart(v)
                  /\ \A raw \in CountParams :
                        ENABLED GetCartAdd(v, raw) /\ ENABLED GetCartReduce(v, raw)
        /\ (callbackRegistered /\ cbPc = "idle" /\ nTicks < MaxTicks) =>
              ENABLED Callback_Load
        /\ cbPc = "observe" => ENABLED Callback_Observe

\* a running handler moves only towards its return, one step at a time
C11_Progress ==
    \A w \in Workers :
        (~Idle(w) /\ pc'[w] # pc[w]) =>
            StepsLeft(pc'[w]) = StepsLeft(pc[w]) - 1

\* C11: a sleeping /latency handler blocks nothing: every running handler
\* can always take its next step, every other request and the callback can
\* start while a handler sleeps, and each step of a handler brings it one
\* step closer to its return, so that under fair scheduling every started
\* request completes (C11_Completes).
C11_SleepBlocksNothing == []C11_CanProceed /\ [][C11_Progress]_vars

\* under fair scheduling every started request completes
C11_Completes == \A w \in Workers : (~Idle(w)) ~> Idle(w)

\* C11 witness: with the first request asleep in /latency, a second worker
\* has started GET /error and passed its counter increment.
C11_Witness ==
    /\ pc[1] = "latency_sleep"
    /\ pc[2] = "error_log"
    /\ ErrorCount = 1

\* a step changes the histogram only when a /latency handler leaves its
\* sleep and returns, and then by one sample put after the samples present
C12_Step ==
    /\ RequestLatency' # RequestLatency =>
          \E w \in Workers :
              /\ pc[w] = "latency_sleep"
              /\ pc'[w] = "idle"
              /\ RequestLatency' = Append(RequestLatency, number[w])
    /\ latHandled' # latHandled =>
          /\ Len(RequestLatency') = Len(RequestLatency) + 1
          /\ SubSeq(RequestLatency', 1, Len(RequestLatency)) = RequestLatency

\* C12: the latency histogram is append-only: it holds exactly one sample
\* per completed GET /latency request, each recorded when its handler
\* returns from the delay, and no step removes, reorders or alters a sample
\* already recorded.
C12_AppendOnly ==
    /\ [](Len(RequestLatency) = latHandled)
    /\ [][C12_Step]_vars

\* C12 witness: two /latency requests have completed with different delays
\* and the histogram holds their two samples.
C12_Witness ==
    /\ latHandled = 2
    /\ Len(RequestLatency) = 2
    /\ RequestLatency[1] # RequestLatency[2]

\* the positions of the handlers of each route
ErrorLabels == {"error_store", "error_add", "error_log"}
LatencyLabels == {"latency_sleep"}
CartLabels == {"add_return", "reduce_return"}

\* worker w takes a step of a handler whose positions are `labels`
StepOf(w, labels) ==
    /\ pc'[w] # pc[w]
    /\ pc[w] \in labels \/ pc'[w] \in labels

\* a request is answered in the step that receives it: GET /, GET /cart or
\* a rejected cart request
AnsweredAtOnce == nRequests' # nRequests /\ pc' = pc

C13_Step ==
    /\ AnsweredAtOnce =>
          /\ response'.kind \in {"root", "cart", "invalid"}
          /\ UNCHANGED <<aggVars, errorCount>>
    /\ \A w \in Workers :
          /\ StepOf(w, ErrorLabels) =>
                UNCHANGED <<totalCartItems, RequestLatency>>
          /\ StepOf(w, LatencyLabels) =>
                UNCHANGED <<totalCartItems, ErrorCount, errorCount>>
          /\ StepOf(w, CartLabels) =>
                UNCHANGED <<ErrorCount, errorCount, RequestLatency>>
    /\ ErrorCount' # ErrorCount =>
          \E w \in Workers : pc[w] = "error_add" /\ pc'[w] = "error_log"
    /\ errorCount' # errorCount =>
          \E w \in Workers : pc[w] = "error_store" /\ pc'[w] = "error_add"
    /\ RequestLatency' # RequestLatency =>
          \E w \in Workers : pc[w] = "latency_sleep" /\ pc'[w] = "idle"
    /\ totalCartItems' # totalCartItems =>
          \E w \in Workers : pc[w] = "idle" /\ pc'[w] \in CartLabels

\* C13: each handler changes only the entity of its route, in one step of
\* its run: GET /, GET /cart and a rejected cart request change nothing,
\* GET /error changes only the error counter and the local tally,
\* GET /latency only the histogram, an accepted GET /cart/add or
\* GET /cart/reduce only the gauge.
C13_Frame == [][C13_Step]_vars

\* C13 witness: a GET /cart/add and a GET /error have both completed; the
\* gauge and the error counter have changed and the histogram has not.
C13_Witness ==
    /\ AllIdle
    /\ nRequests = 2
    /\ totalCartItems = 2
    /\ ErrorCount = 1
    /\ errorCount = 1
    /\ RequestLatency = <<>>

\* C14: SetItemsInCart, AddItemsInCart and ReduceItemsInCart are total over
\* the whole of int64: every call on every gauge value and argument can be
\* made and leaves an int64, and the gauge holds the result of the calls in
\* arithmetic modulo 2^64, wrapped into MinInt64 .. MaxInt64 when the exact
\* result leaves that range.
C14_TotalAndWraps ==
    /\ wGauge \in Words
    /\ wGauge = ToWord(wExact)
    /\ InInt64(wExact)
    /\ nCalls < MaxCalls =>
          \A v \in Int64Inputs :
              /\ ENABLED Call_SetItemsInCart(v)
              /\ ENABLED Call_AddItemsInCart(v)
              /\ ENABLED Call_ReduceItemsInCart(v)

\* C14 witness: the gauge was set to MaxInt64 and 1 was added: the exact
\* result leaves int64 and the gauge holds MinInt64.
C14_Witness ==
    /\ nCalls = 2
    /\ wLast = [op |-> "add", arg |-> BigOf(1), wrapped |-> TRUE]
    /\ wGauge = ToWord(MinInt64)

\* the signed change of the gauge that the accepted cart request of worker
\* w has made, w being between its atomic add and its return
OwnDelta(w) == IF pc[w] = "add_return" THEN countInt[w] ELSE 0 - countInt[w]

C15_Step ==
    \A w \in Workers :
        \* the atomic add of w: its delta joins the applied ones
        /\ (pc[w] = "idle" /\ pc'[w] \in CartLabels) =>
              /\ requested' = requested + OwnDelta(w)'
              /\ totalCartItems' = totalCartItems + OwnDelta(w)'
        \* the later read of w: every delta applied so far is in it
        /\ (pc[w] \in CartLabels /\ pc'[w] = "idle") =>
              /\ response'.kind \in {"added", "reduced"}
              /\ response'.value = InitialCartItems + requested
              /\ requested' = requested

\* C15: updated_items of an accepted GET /cart/add or GET /cart/reduce is
\* read in a step after the request's own atomic add: it is the initial
\* gauge value plus the sum of the deltas applied up to the read, the
\* request's own among them and those of concurrent requests too.
C15_UpdatedItems == [][C15_Step]_vars

\* C15 witness: the first request added 1 to the empty cart, a concurrent
\* request added 2 before the first read the gauge, and the first was told
\* updated_items 3, not 0 + 1.
C15_Witness ==
    /\ pc[1] = "idle"
    /\ pc[2] = "add_return"
    /\ countInt[2] = 2
    /\ pre[2] = 1
    /\ response = Respond(200, "added", 3)

\* the non-zero counts of the model
NonZeroCounts == ((0 - MaxCount)..MaxCount) \ {0}

\* what c.QueryInt makes of each count parameter of the model
Parsed == [raw \in CountParams |-> QueryInt(raw)]

\* a count parameter that is the decimal text of N is parsed as N
C16_ParsesN == \A n \in NonZeroCounts : Parsed[Itoa(n)] = n

\* a cart request is accepted exactly when its parsed count is not 0, and an
\* accepted request with count N moves the gauge by N (add) or by -N (reduce)
C16_Step ==
    \A w \in Workers :
      (nRequests' # nRequests /\ Idle(w)) =>
        \A raw \in CountParams :
            /\ GetCartAdd(w, raw) =>
                  IF Parsed[raw] = 0
                  THEN pc'[w] = "idle" /\ response'.kind = "invalid"
                  ELSE /\ pc'[w] = "add_return"
                       /\ totalCartItems' = totalCartItems + Parsed[raw]
            /\ GetCartReduce(w, raw) =>
                  IF Parsed[raw] = 0
                  THEN pc'[w] = "idle" /\ response'.kind = "invalid"
                  ELSE /\ pc'[w] = "reduce_return"
                       /\ totalCartItems' = totalCartItems - Parsed[raw]

\* from the gauge value g, add N then reduce N gives g, and add -N gives
\* what reduce N gives
C16_Algebra(g) ==
    \A n \in NonZeroCounts :
        /\ ReduceItemsInCart(AddItemsInCart(g, n), n) = g
        /\ AddItemsInCart(g, 0 - n) = ReduceItemsInCart(g, n)

\* C16: the cart routes accept every count that parses to a non-zero
\* integer, negative ones included, and reject only a count of zero; add
\* and reduce are exact inverses: from every gauge value add N followed by
\* reduce N restores it, and add -N has the effect of reduce N.
C16_Inverses ==
    /\ C16_ParsesN
    /\ []C16_Algebra(totalCartItems)
    /\ [][C16_Step]_vars

\* C16 witness: GET /cart/add?count=-2 took the empty cart to -2 and was
\* told so, and GET /cart/reduce?count=-2 has brought the gauge back to 0.
C16_Witness ==
    /\ response = Respond(200, "added", 0 - 2)
    /\ pc[1] = "reduce_return"
    /\ countInt[1] = 0 - 2
    /\ pre[1] = 0 - 2
    /\ totalCartItems = 0

\* every request has been received and every handler has returned: the
\* cart mutations have stopped
C17_Settled == phase = "serving" /\ nRequests = MaxRequests /\ AllIdle

\* the exporter's latest observation is the gauge's value
C17_ObservedFinal ==
    /\ Len(observed) > 0
    /\ observed[Len(observed)] = totalCartItems

\* a callback started after the mutations have stopped loads the final
\* value, and the value a callback loaded is the one it reports
C17_Step ==
    /\ (C17_Settled /\ cbPc = "idle" /\ cbPc' = "observe") =>
          currentValue' = totalCartItems
    /\ (cbPc = "observe" /\ cbPc' = "idle") =>
          observed' = Append(observed, currentValue)

\* C17: once the cart mutations have stopped, with a collection of the
\* periodic reader still to come, the exporter eventually observes the
\* final gauge value, and every observation whose callback starts after the
\* last mutation reports exactly that value.
C17_EventuallyObserved ==
    /\ (C17_Settled /\ nTicks < MaxTicks) ~> C17_ObservedFinal
    /\ [][C17_Step]_vars

\* the same, for the runs in which meter.RegisterCallback succeeded
C17_WhenRegistered ==
    /\ (C17_Settled /\ nTicks < MaxTicks /\ callbackRegistered)
          ~> C17_ObservedFinal
    /\ [][C17_Step]_vars

\* C18: SetItemsInCart(v) overwrites the gauge in one atomic store: the
\* gauge is always v plus the sum of the deltas whose atomic add came after
\* the latest store, whatever was applied before it, and with no add or
\* reduce since the store GetTotalItemsInCart returns v.
C18_StoreOverwrites ==
    /\ totalCartItems = stored.value + (requested - stored.at)
    /\ (nSets > 0 /\ requested = stored.at) =>
          GetTotalItemsInCart(totalCartItems) = stored.value

\* C18 witness: a request added 2, SetItemsInCart(5) ran before that request
\* read the gauge, and a second request then added 1: the gauge is 6.
C18_Witness ==
    /\ pc = [w \in Workers |-> "add_return"]
    /\ countInt = [w \in Workers |-> IF w = 1 THEN 2 ELSE 1]
    /\ nSets = 1
    /\ stored = [value |-> 5, at |-> 2]
    /\ totalCartItems = 6

====
